---- MODULE Spec2Model ----
(***************************************************************************)
(* Model of bookapp/static/js/main.js: the wishlist heart controller       *)
(* (startup status sync, click handlers, toggle requests and their         *)
(* promise chains), the toast presenter and the navbar scroll listener.    *)
(*                                                                         *)
(* The browser's event loop runs one task to completion at a time, so one  *)
(* action is one task together with the microtasks it settles.  The        *)
(* server is opaque: every response is a nondeterministic choice.          *)
(***************************************************************************)
EXTENDS Integers, Sequences, FiniteSets

\* ------------------------------------------------------------------ bounds
\* Number of .wishlist-heart elements on the page, in document order.
NumHearts == 2
\* Total number of clicks the user makes on hearts.
MaxClicks == 2
\* Longest wishlist_status array in a status-check response.
MaxStatus == 2
\* Largest value of Date.now() (milliseconds since page load).
MaxClock == 1
\* Largest vertical scroll offset of a scroll event.
MaxOffset == 102
\* Largest number of cookies the browser holds for the page.
MaxCookies == 2
\* Most spaces after a ';' of document.cookie.
MaxSpaces == 1

\* ------------------------------------------------------- program constants
\* main.js:43  if (scrollTop > 100)
ScrolledThreshold == 100

\* ------------------------------------------------------------ value spaces
Hearts == 1..NumHearts
\* Book codes the page and the server may use.
Isbns == {"A", "B"}
\* dataset.bookIsbn of a heart that has no data-book-isbn attribute.
NoIsbn == "undefined"
\* The message the server puts in a toggle response: one per answer.
MessageOf(success, inWishlist) ==
    IF ~success THEN "Limit reached"
    ELSE IF inWishlist THEN "Added" ELSE "Removed"
\* Class lists the server may render a heart with: {active, icon tone}.
RenderedHearts ==
    { [active |-> FALSE, danger |-> FALSE, muted |-> TRUE],
      [active |-> TRUE,  danger |-> TRUE,  muted |-> FALSE] }
\* navbar.offsetHeight values the page may have.
NavbarHeights == {0, 56, MaxOffset - 1, MaxOffset}
ScrollOffsets == 0..MaxOffset

\* A response, as the promise chains see it.  kind says how far the request
\* got: the fetch rejected, the status was not OK, the body did not parse,
\* the body parsed to something without the expected fields, or it parsed.
NoResponse ==
    [kind |-> "none", success |-> FALSE, in_wishlist |-> FALSE,
     message |-> "", wishlist_status |-> <<>>]
ToggleResponses ==
    { [NoResponse EXCEPT !.kind = k] :
        k \in {"network_error", "not_ok", "parse_error", "malformed"} }
    \cup
    { [NoResponse EXCEPT !.kind = "json", !.success = s,
                         !.in_wishlist = w, !.message = MessageOf(s, w)] :
        s \in BOOLEAN, w \in BOOLEAN }
\* Two of them, one of each branch that presents a toast, for the runs that
\* are about the toasts.
ToastResponses ==
    { r \in ToggleResponses :
        \/ r.kind = "network_error"
        \/ (r.kind = "json" /\ r.success /\ r.in_wishlist) }
\* Strings are sequences of characters.  Names of cookies: a, one that
\* ends in a, one that starts with a.
CookieNames == { <<"a">>, <<"b", "a">>, <<"a", "b">> }
\* Values of cookies, as the server wrote them: empty, plain, with an
\* escape (%41 is A), with an '=' and an escape, and a lone '%'.
CookieValues ==
    { <<>>, <<"x">>, <<"%", "4", "1">>, <<"x", "=", "%", "4", "4">>, <<"%">> }
\* Names getCookie is asked for.
LookupNames == { <<"a">>, <<"b">>, <<"a", "b">> }
\* The cookies of a page, in the order of document.cookie; space is the
\* number of spaces between the ';' before the cookie and its name.
CookieJars ==
    { jar \in UNION { [1..n -> [name : CookieNames, value : CookieValues,
                                space : 0..MaxSpaces]] : n \in 0..MaxCookies } :
        jar # <<>> => jar[1].space = 0 }
\* Page layouts: the book code of each heart, books named in the order of
\* their first heart.
PageCodes ==
    { c \in [Hearts -> Isbns \cup {NoIsbn}] :
        \A h \in Hearts : c[h] = "B" => \E g \in 1..(h - 1) : c[g] = "A" }
StatusEntries == [isbn : Isbns, in_wishlist : BOOLEAN]
StatusLists ==
    UNION { [1..n -> StatusEntries] : n \in 0..MaxStatus }
SyncResponses ==
    { [NoResponse EXCEPT !.kind = k] :
        k \in {"network_error", "parse_error", "malformed"} }
    \cup
    { [NoResponse EXCEPT !.kind = "json", !.success = FALSE] }
    \cup
    { [NoResponse EXCEPT !.kind = "json", !.success = TRUE,
                         !.wishlist_status = st] : st \in StatusLists }

VARIABLES
    pc,              \* "loading" until DOMContentLoaded has run, then "ready"
    isbn,            \* heart -> dataset.bookIsbn
    heartClass,      \* heart -> [active, danger, muted]: the class lists
    handlers,        \* heart -> number of click listeners attached
    syncState,       \* "none" | "pending" | "resolved": checkWishlistStates
    syncRequests,    \* sequence of status-check request bodies issued
    inflight,        \* set of toggle requests not yet settled
    toastContainers, \* number of .toast-container elements in the document
    toastEls,        \* toast elements showToast inserted, in insertion order
    clock,           \* Date.now()
    documentCookie,  \* document.cookie, a sequence of characters
    cookieName,      \* argument of the latest getCookie call
    cookieValue,     \* what the latest getCookie call returned or threw
    unhandled,       \* promise rejections no handler caught
    offsetHeight,    \* navbar.offsetHeight
    navbarHeight,    \* const navbarHeight (main.js:5)
    lastScrollTop,   \* let lastScrollTop (main.js:4, 49)
    navClass,        \* navbar class list: [hidden, scrolled]
    \* ---- history variables (not program state)
    clicks,          \* clicks the user made on hearts
    issued,          \* heart -> toggle requests issued for it
    confirmed,       \* heart -> last membership a response confirmed
    prevOffset,      \* offset of the latest scroll event, 0 before the first
    cookieJar,       \* the cookies the browser holds, which it renders as
                     \* document.cookie
    ev               \* what the latest step was

vars ==
    << pc, isbn, heartClass, handlers, syncState, syncRequests, inflight,
       toastContainers, toastEls, clock, unhandled, offsetHeight,
       navbarHeight, lastScrollTop, navClass, clicks, issued, confirmed,
       prevOffset, ev, documentCookie, cookieName, cookieValue, cookieJar >>

wishlistVars ==
    << isbn, heartClass, handlers, syncState, syncRequests, inflight,
       unhandled, clicks, issued, confirmed >>
toastVars == << toastContainers, toastEls >>
navVars == << offsetHeight, navbarHeight, lastScrollTop, navClass, prevOffset >>

cookieVars ==
    << documentCookie, cookieName, cookieValue, cookieJar >>
NoReq == [id |-> 0, heart |-> 0, isbn |-> "", pre |-> FALSE]
Event(kind, heart, req, resp, offset) ==
    [kind |-> kind, heart |-> heart, req |-> req, resp |-> resp,
     offset |-> offset]


\* ------------------------------------------------------- wishlist hearts
\* Variant: adding the alert tone leaves the muted tone in place.
updateWishlistHeart_KeepsMuted(heart, inWishlist) ==
    IF inWishlist
    THEN [heart EXCEPT !.active = TRUE, !.danger = TRUE]
    ELSE [heart EXCEPT !.active = FALSE, !.danger = FALSE, !.muted = TRUE]

\* main.js:171-183.  Returns the class record of a heart after the update.
updateWishlistHeart(heart, inWishlist) ==
    IF inWishlist
    THEN [heart EXCEPT !.active = TRUE, !.muted = FALSE, !.danger = TRUE]
    ELSE [heart EXCEPT !.active = FALSE, !.danger = FALSE, !.muted = TRUE]

\* Variant: the codes are not filtered.
bookIsbns_NoFilter ==
    [h \in Hearts |-> isbn[h]]

\* main.js:109-111.  The book codes of the hearts that have one, in
\* document order.
bookIsbns ==
    SelectSeq([h \in Hearts |-> isbn[h]], LAMBDA code : code # NoIsbn)

\* main.js:127.  document.querySelector with an attribute selector: the
\* first heart in document order carrying the code, 0 when there is none.
querySelectorHeart(code) ==
    IF \E h \in Hearts : isbn[h] = code
    THEN CHOOSE h \in Hearts :
            /\ isbn[h] = code
            /\ \A g \in Hearts : isbn[g] = code => h <= g
    ELSE 0

\* main.js:126-131.  wishlist_status.forEach over the class records.
RECURSIVE applyWishlistStatus(_, _)
applyWishlistStatus(classes, statuses) ==
    IF statuses = <<>>
    THEN classes
    ELSE LET status == Head(statuses)
             heart == querySelectorHeart(status.isbn)
         IN  applyWishlistStatus(
                 IF heart # 0
                 THEN [classes EXCEPT
                         ![heart] = updateWishlistHeart(@, status.in_wishlist)]
                 ELSE classes,
                 Tail(statuses))

\* main.js:123.  response.json() rejects, or the fetch itself did; a body
\* without the expected fields makes the data callback throw (main.js:125).
checkWishlistStatesThrows(resp) ==
    resp.kind \in {"network_error", "parse_error", "malformed"}

\* main.js:124-133.  The data callback of the status check.
checkWishlistStatesThen(classes, data) ==
    IF data.success
    THEN applyWishlistStatus(classes, data.wishlist_status)
    ELSE classes

\* Variant: the catch handler rethrows, so the returned promise rejects.
checkWishlistStatesCatch_Rethrow(resp) ==
    "rejected"

\* main.js:134-136.  The catch handler logs and returns: the promise that
\* checkWishlistStates returns is fulfilled.
checkWishlistStatesCatch(resp) ==
    "fulfilled"

\* main.js:98-104.  addEventListener with a fresh function adds a listener.
initializeWishlistHeart(listeners) ==
    listeners + 1

\* Variant: only the first heart gets a click listener.
attachClickHandlers_FirstOnly ==
    [h \in Hearts |-> IF h = 1 THEN handlers[h] + 1 ELSE handlers[h]]

\* main.js:90-92.  wishlistHearts.forEach(initializeWishlistHeart).
attachClickHandlers ==
    [h \in Hearts |-> initializeWishlistHeart(handlers[h])]

\* Variant: the handlers are attached at once, without waiting for the
\* status check to settle.
initializeWishlistHearts_NoWait ==
    /\ handlers' = [h \in Hearts |-> handlers[h] + 1]
    /\ IF bookIsbns = <<>>
       THEN /\ syncState' = "resolved"
            /\ syncRequests' = syncRequests
       ELSE /\ syncState' = "pending"
            /\ syncRequests' = Append(syncRequests, bookIsbns)

\* main.js:84-94 with 107-122.  With no book code on the page the promise
\* is already resolved and the handlers are attached in the microtask that
\* follows; otherwise one status-check request leaves and nothing else
\* happens until it settles.
initializeWishlistHearts ==
    IF bookIsbns = <<>>
    THEN /\ syncState' = "resolved"
         /\ handlers' = attachClickHandlers
         /\ syncRequests' = syncRequests
    ELSE /\ syncState' = "pending"
         /\ handlers' = handlers
         /\ syncRequests' = Append(syncRequests, bookIsbns)

\* ------------------------------------------------------------------ toasts
\* main.js:215-224.
getToastIcon(type) ==
    CASE type = "success" -> "fa-check-circle"
      [] type = "error"   -> "fa-exclamation-circle"
      [] type = "danger"  -> "fa-exclamation-circle"
      [] type = "warning" -> "fa-exclamation-triangle"
      [] type = "info"    -> "fa-info-circle"
      [] OTHER            -> "fa-bell"

\* main.js:226-232.  Appends one more container to the body.
createToastContainer(containers) ==
    containers + 1

\* main.js:187.  document.querySelector('.toast-container'): the first
\* container of the document, 0 when there is none.
querySelectorToastContainer(containers) ==
    IF containers > 0 THEN 1 ELSE 0

\* main.js:205.  document.getElementById: the first element in document
\* order, among those in the document, that carries the id.
getElementById(els, id) ==
    CHOOSE i \in 1..Len(els) :
        /\ els[i].inDocument /\ els[i].id = id
        /\ \A j \in 1..Len(els) :
              (els[j].inDocument /\ els[j].id = id) => i <= j

\* main.js:189-203.  The element insertAdjacentHTML adds to a container:
\* no widget and no listener yet, not displayed.  createdContainer and
\* removals are history: whether the call had to create the container, and
\* how many times the element was taken out of the document.
toastElementOf(toastId, message, type, toastContainer, created) ==
    [id |-> toastId, type |-> type, icon |-> getToastIcon(type),
     message |-> message, container |-> toastContainer,
     createdContainer |-> created, inDocument |-> TRUE,
     widgets |-> 0, listeners |-> 0, shown |-> FALSE, timers |-> 0,
     hiding |-> 0, dismissed |-> FALSE, removals |-> 0]

\* Variant: every call creates a container of its own.
showToast_OwnContainer(message, type) ==
    LET toastContainer == createToastContainer(toastContainers)
        toastId == clock
        inserted ==
            Append(toastEls,
                   toastElementOf(toastId, message, type, toastContainer, TRUE))
        toastElement == getElementById(inserted, toastId)
    IN  /\ toastContainers' = toastContainer
        /\ toastEls' =
               [inserted EXCEPT
                  ![toastElement] =
                      [@ EXCEPT !.widgets = @ + 1, !.listeners = @ + 1,
                                !.shown = TRUE, !.timers = @ + 1]]

\* main.js:186-213.  The element is inserted at the end of the container
\* found or created; the widget, the hidden-listener and show() go to the
\* element found by id.  show() displays the element and, the delay being
\* a number, arms the widget's hide timer.
showToast(message, type) ==
    LET found == querySelectorToastContainer(toastContainers)
        toastContainer ==
            IF found # 0 THEN found ELSE createToastContainer(toastContainers)
        toastId == clock
        inserted ==
            Append(toastEls,
                   toastElementOf(toastId, message, type, toastContainer,
                                  found = 0))
        toastElement == getElementById(inserted, toastId)
    IN  /\ toastContainers' =
               IF found # 0 THEN toastContainers ELSE toastContainer
        /\ toastEls' =
               [inserted EXCEPT
                  ![toastElement] =
                      [@ EXCEPT !.widgets = @ + 1, !.listeners = @ + 1,
                                !.shown = TRUE, !.timers = @ + 1]]

\* main.js:206, 212.  hide() of the toast widget: nothing on an element that
\* is not displayed, else a hide transition starts.
toastHide(el) ==
    IF el.shown THEN [el EXCEPT !.hiding = @ + 1] ELSE el

\* main.js:208-210.  The hidden-listener: this.remove().  Removing an
\* element that is in no document does nothing.
hiddenListener(el) ==
    [el EXCEPT !.inDocument = FALSE,
               !.removals = IF el.inDocument THEN @ + 1 ELSE @]

\* main.js:208.  The hidden event runs every listener registered on the
\* element.
RECURSIVE dispatchHidden(_, _)
dispatchHidden(el, n) ==
    IF n = 0 THEN el ELSE dispatchHidden(hiddenListener(el), n - 1)

\* ------------------------------------------------------ toggle on a click
\* main.js:139-146.  The request a call of toggleWishlist sends: the id-th
\* of heart h; pre is the heart's visual state at the click (history, not
\* sent).
toggleWishlist(id, h) ==
    [id |-> id, heart |-> h, isbn |-> isbn[h], pre |-> heartClass[h].active]

\* Variant: response.ok is not looked at.
toggleWishlistThrows_NoOkCheck(resp) ==
    resp.kind \in {"network_error", "parse_error", "malformed"}

\* main.js:147-152.  The fetch rejected, the status was not OK, or
\* response.json() rejected; a body without the fields makes the data
\* callback throw (main.js:154).
toggleWishlistThrows(resp) ==
    resp.kind \in {"network_error", "not_ok", "parse_error", "malformed"}

\* Variant: the toast categories of the success branch are exchanged.
toggleWishlistThen_Swapped(h, data) ==
    IF data.success
    THEN /\ heartClass' =
              [heartClass EXCEPT
                 ![h] = updateWishlistHeart(@, data.in_wishlist)]
         /\ showToast(data.message,
                      IF data.in_wishlist THEN "info" ELSE "success")
         /\ unhandled' = unhandled
    ELSE /\ showToast(data.message, "warning")
         /\ heartClass' =
              [heartClass EXCEPT
                 ![h] = updateWishlistHeart(@, ~heartClass[h].active)]
         /\ unhandled' = unhandled

\* Variant: the success:false branch leaves the heart alone.
toggleWishlistThen_NoRevert(h, data) ==
    IF data.success
    THEN /\ heartClass' =
              [heartClass EXCEPT
                 ![h] = updateWishlistHeart(@, data.in_wishlist)]
         /\ showToast(data.message,
                      IF data.in_wishlist THEN "success" ELSE "info")
         /\ unhandled' = unhandled
    ELSE /\ showToast(data.message, "warning")
         /\ heartClass' = heartClass
         /\ unhandled' = unhandled

\* main.js:153-162.  The data callback.
toggleWishlistThen(h, data) ==
    IF data.success
    THEN /\ heartClass' =
              [heartClass EXCEPT
                 ![h] = updateWishlistHeart(@, data.in_wishlist)]
         /\ showToast(data.message,
                      IF data.in_wishlist THEN "success" ELSE "info")
         /\ unhandled' = unhandled
    ELSE /\ showToast(data.message, "warning")
         /\ heartClass' =
              [heartClass EXCEPT
                 ![h] = updateWishlistHeart(@, ~heartClass[h].active)]
         /\ unhandled' = unhandled

\* Variant: the catch handler looks the hearts up by book code.
toggleWishlistCatch_ByIsbn(h) ==
    /\ showToast("Error updating wishlist", "danger")
    /\ heartClass' =
         [g \in Hearts |->
            IF isbn[g] = isbn[h]
            THEN updateWishlistHeart(heartClass[g], ~heartClass[h].active)
            ELSE heartClass[g]]
    /\ unhandled' = unhandled

\* main.js:163-168.  The catch handler.
toggleWishlistCatch(h) ==
    /\ showToast("Error updating wishlist", "danger")
    /\ heartClass' =
         [heartClass EXCEPT
            ![h] = updateWishlistHeart(@, ~heartClass[h].active)]
    /\ unhandled' = unhandled

\* ------------------------------------------------------------------ navbar
\* main.js:33.  window.pageYOffset || document.documentElement.scrollTop
scrollTopOf(pageYOffset, docScrollTop) ==
    IF pageYOffset # 0 THEN pageYOffset ELSE docScrollTop

\* Variant: the listener forgets to remember the offset.
scrollListener_StaleLast(pageYOffset, docScrollTop) ==
    LET scrollTop == scrollTopOf(pageYOffset, docScrollTop)
    IN  /\ navClass' =
             [hidden   |-> (scrollTop > lastScrollTop /\ scrollTop > navbarHeight),
              scrolled |-> (scrollTop > ScrolledThreshold)]
        /\ lastScrollTop' = lastScrollTop

\* Variant: the scrolled class is set from the threshold on.
scrollListener_ScrolledAtThreshold(pageYOffset, docScrollTop) ==
    LET scrollTop == scrollTopOf(pageYOffset, docScrollTop)
    IN  /\ navClass' =
             [hidden   |-> (scrollTop > lastScrollTop /\ scrollTop > navbarHeight),
              scrolled |-> (scrollTop >= ScrolledThreshold)]
        /\ lastScrollTop' = scrollTop

\* main.js:32-50.  The scroll listener.
scrollListener(pageYOffset, docScrollTop) ==
    LET scrollTop == scrollTopOf(pageYOffset, docScrollTop)
    IN  /\ navClass' =
             [hidden   |-> (scrollTop > lastScrollTop /\ scrollTop > navbarHeight),
              scrolled |-> (scrollTop > ScrolledThreshold)]
        /\ lastScrollTop' = scrollTop

\* ----------------------------------------------------------------- cookies
\* main.js:237-238.  What the browser gives for document.cookie: the
\* name=value pairs joined by ';' and spaces.
RECURSIVE cookieString(_)
cookieString(jar) ==
    IF jar = <<>>
    THEN <<>>
    ELSE LET c == Head(jar)
             pair == [i \in 1..c.space |-> " "] \o c.name \o <<"=">> \o c.value
         IN  IF Tail(jar) = <<>>
             THEN pair
             ELSE pair \o <<";">> \o cookieString(Tail(jar))

\* main.js:238.  String.prototype.split with a separator of one character.
RECURSIVE split(_, _)
split(s, sep) ==
    IF \E i \in 1..Len(s) : s[i] = sep
    THEN LET i == CHOOSE i \in 1..Len(s) :
                     s[i] = sep /\ \A j \in 1..(i - 1) : s[j] # sep
         IN  << SubSeq(s, 1, i - 1) >> \o split(SubSeq(s, i + 1, Len(s)), sep)
    ELSE << s >>

\* main.js:240.  String.prototype.trim.
RECURSIVE trim(_)
trim(s) ==
    IF s # <<>> /\ Head(s) = " " THEN trim(Tail(s))
    ELSE IF s # <<>> /\ s[Len(s)] = " " THEN trim(SubSeq(s, 1, Len(s) - 1))
    ELSE s

\* main.js:241-242.  String.prototype.substring, indices from 0 and
\* clamped to the length.
substring(s, start, end) ==
    LET lo == IF start > Len(s) THEN Len(s) ELSE start
        hi == IF end > Len(s) THEN Len(s) ELSE end
    IN  SubSeq(s, lo + 1, hi)

\* main.js:242.  The character an escape %xy stands for.
HexDigits == { "1", "4" }
percentDecoded(x, y) ==
    CASE x = "4" /\ y = "1" -> "A"
      [] x = "4" /\ y = "4" -> "D"
      [] x = "1" /\ y = "1" -> "\\u0011"
      [] x = "1" /\ y = "4" -> "\\u0014"

\* main.js:242.  decodeURIComponent: every %xy is replaced; a '%' that
\* two hexadecimal digits do not follow makes it throw URIError.
RECURSIVE decodeURIComponent(_)
decodeURIComponent(s) ==
    IF s = <<>>
    THEN [kind |-> "string", value |-> <<>>]
    ELSE IF Head(s) = "%"
    THEN IF Len(s) >= 3 /\ s[2] \in HexDigits /\ s[3] \in HexDigits
         THEN LET rest == decodeURIComponent(SubSeq(s, 4, Len(s)))
              IN  IF rest.kind = "URIError"
                  THEN rest
                  ELSE [rest EXCEPT
                          !.value = << percentDecoded(s[2], s[3]) >> \o @]
         ELSE [kind |-> "URIError", value |-> <<>>]
    ELSE LET rest == decodeURIComponent(Tail(s))
         IN  IF rest.kind = "URIError"
             THEN rest
             ELSE [rest EXCEPT !.value = << Head(s) >> \o @]

\* main.js:239-245.  The loop over the cookies from index i on, with its
\* break.
RECURSIVE getCookieLoop(_, _, _)
getCookieLoop(cookies, i, name) ==
    IF i > Len(cookies)
    THEN [kind |-> "null", value |-> <<>>]
    ELSE LET cookie == trim(cookies[i])
         IN  IF substring(cookie, 0, Len(name) + 1) = name \o <<"=">>
             THEN decodeURIComponent(substring(cookie, Len(name) + 1,
                                               Len(cookie)))
             ELSE getCookieLoop(cookies, i + 1, name)

\* main.js:235-248.  What the call returns, or the error it throws.
getCookie(name) ==
    IF documentCookie # <<>>
    THEN getCookieLoop(split(documentCookie, ";"), 1, name)
    ELSE [kind |-> "null", value |-> <<>>]

\* ----------------------------------------------------------------- actions
\* main.js:2-13.  The document is ready: the navbar's height is read, the
\* hearts are initialised and the scroll listener is registered.
DOMContentLoaded ==
    /\ pc = "loading"
    /\ pc' = "ready"
    /\ lastScrollTop' = 0
    /\ navbarHeight' = offsetHeight
    /\ initializeWishlistHearts
    /\ ev' = Event("load", 0, NoReq, NoResponse, 0)
    /\ UNCHANGED cookieVars
    /\ UNCHANGED << isbn, heartClass, inflight, toastContainers,
                    toastEls, clock, unhandled, offsetHeight, navClass,
                    clicks, issued, confirmed, prevOffset >>

\* Variant: the click flips the heart before the request is answered.
Click_Optimistic(h) ==
    /\ clicks < MaxClicks
    /\ clicks' = clicks + 1
    /\ inflight' = inflight \cup
           { toggleWishlist(issued[h] + k, h) : k \in 1..handlers[h] }
    /\ issued' = [issued EXCEPT ![h] = @ + handlers[h]]
    /\ heartClass' =
         IF handlers[h] > 0
         THEN [heartClass EXCEPT
                 ![h] = updateWishlistHeart(@, ~heartClass[h].active)]
         ELSE heartClass
    /\ ev' = Event("click", h, NoReq, NoResponse, 0)
    /\ UNCHANGED cookieVars
    /\ UNCHANGED << pc, isbn, handlers, syncState, syncRequests,
                    toastContainers, toastEls, clock, unhandled, confirmed >>
    /\ UNCHANGED navVars

\* Variant: a click on a heart that has a request in flight is ignored.
Click_Debounced(h) ==
    LET busy == \E q \in inflight : q.heart = h
    IN  /\ clicks < MaxClicks
        /\ clicks' = clicks + 1
        /\ inflight' =
             IF busy THEN inflight
             ELSE inflight \cup
                    { toggleWishlist(issued[h] + k, h) : k \in 1..handlers[h] }
        /\ issued' = IF busy THEN issued
                     ELSE [issued EXCEPT ![h] = @ + handlers[h]]
        /\ ev' = Event("click", h, NoReq, NoResponse, 0)
        /\ UNCHANGED cookieVars
        /\ UNCHANGED << pc, isbn, heartClass, handlers, syncState,
                        syncRequests, toastContainers, toastEls, clock,
                        unhandled, confirmed >>
        /\ UNCHANGED navVars

\* The user clicks heart h.  Every click listener on the heart runs
\* (main.js:98-104) and each calls toggleWishlist once.
Click(h) ==
    /\ clicks < MaxClicks
    /\ clicks' = clicks + 1
    /\ inflight' = inflight \cup
           { toggleWishlist(issued[h] + k, h) : k \in 1..handlers[h] }
    /\ issued' = [issued EXCEPT ![h] = @ + handlers[h]]
    /\ ev' = Event("click", h, NoReq, NoResponse, 0)
    /\ UNCHANGED cookieVars
    /\ UNCHANGED << pc, isbn, heartClass, handlers, syncState, syncRequests,
                    toastContainers, toastEls, clock, unhandled, confirmed >>
    /\ UNCHANGED navVars


\* The status-check request settles with resp (main.js:123-136), and the
\* callback of initializeWishlistHearts (main.js:88-93) runs in the
\* microtask that follows a fulfilled promise.
SyncResolve(resp) ==
    /\ syncState = "pending"
    /\ LET settled ==
               IF checkWishlistStatesThrows(resp)
               THEN checkWishlistStatesCatch(resp)
               ELSE "fulfilled"
       IN  /\ heartClass' =
                 IF checkWishlistStatesThrows(resp)
                 THEN heartClass
                 ELSE checkWishlistStatesThen(heartClass, resp)
           /\ IF settled = "fulfilled"
              THEN /\ syncState' = "resolved"
                   /\ handlers' = attachClickHandlers
                   /\ unhandled' = unhandled
              ELSE /\ syncState' = "rejected"
                   /\ handlers' = handlers
                   /\ unhandled' = unhandled + 1
    /\ confirmed' =
         [h \in Hearts |->
            LET mine == { i \in 1..Len(resp.wishlist_status) :
                            resp.wishlist_status[i].isbn = isbn[h] }
            IN  IF resp.kind = "json" /\ resp.success /\ mine # {}
                THEN resp.wishlist_status[
                         CHOOSE i \in mine : \A j \in mine : j <= i].in_wishlist
                ELSE confirmed[h]]
    /\ ev' = Event("sync", 0, NoReq, resp, 0)
    /\ UNCHANGED cookieVars
    /\ UNCHANGED << pc, isbn, syncRequests, inflight, clock, clicks, issued >>
    /\ UNCHANGED toastVars
    /\ UNCHANGED navVars

\* The toggle request r settles with resp and its promise chain runs
\* (main.js:147-168).
ToggleResolve(r, resp) ==
    /\ r \in inflight
    /\ inflight' = inflight \ {r}
    /\ IF toggleWishlistThrows(resp)
       THEN toggleWishlistCatch(r.heart)
       ELSE toggleWishlistThen(r.heart, resp)
    /\ confirmed' =
         [h \in Hearts |->
            IF /\ resp.kind = "json" /\ resp.success
               /\ (h = r.heart \/ (isbn[h] = r.isbn /\ r.isbn # NoIsbn))
            THEN resp.in_wishlist
            ELSE confirmed[h]]
    /\ ev' = Event("toggle", r.heart, r, resp, 0)
    /\ UNCHANGED cookieVars
    /\ UNCHANGED << pc, isbn, handlers, syncState, syncRequests, clock,
                    clicks, issued >>
    /\ UNCHANGED navVars

\* Some code calls getCookie(name) (main.js:119, 144, for the request
\* headers).
GetCookie(name) ==
    /\ cookieName' = name
    /\ cookieValue' = getCookie(name)
    /\ ev' = Event("getCookie", 0, NoReq, NoResponse, 0)
    /\ UNCHANGED << pc, toastContainers, toastEls, clock, documentCookie,
                    cookieJar >>
    /\ UNCHANGED wishlistVars
    /\ UNCHANGED navVars

\* A millisecond passes.  Date.now() is read for toast ids only, so the
\* clock is let advance when a toast in the document carries its value.
Tick ==
    /\ clock < MaxClock
    /\ \E i \in 1..Len(toastEls) :
          toastEls[i].inDocument /\ toastEls[i].id = clock
    /\ clock' = clock + 1
    /\ ev' = Event("tick", 0, NoReq, NoResponse, 0)
    /\ UNCHANGED cookieVars
    /\ UNCHANGED << pc >>
    /\ UNCHANGED wishlistVars
    /\ UNCHANGED toastVars
    /\ UNCHANGED navVars

\* A hide timer of toast i, armed by show() with the delay of main.js:206,
\* fires and calls hide().
ToastTimeout(i) ==
    /\ i \in 1..Len(toastEls)
    /\ toastEls[i].timers > 0
    /\ toastEls' =
         [toastEls EXCEPT ![i] = toastHide([@ EXCEPT !.timers = @ - 1])]
    /\ ev' = Event("timeout", 0, NoReq, NoResponse, 0)
    /\ UNCHANGED cookieVars
    /\ UNCHANGED << pc, toastContainers, clock >>
    /\ UNCHANGED wishlistVars
    /\ UNCHANGED navVars

\* The user presses the close button of toast i (main.js:198), which is
\* there to press while the toast is displayed; the button calls hide().
ToastDismiss(i) ==
    /\ i \in 1..Len(toastEls)
    /\ toastEls[i].inDocument /\ toastEls[i].shown
    /\ ~toastEls[i].dismissed
    /\ toastEls' =
         [toastEls EXCEPT ![i] = toastHide([@ EXCEPT !.dismissed = TRUE])]
    /\ ev' = Event("dismiss", 0, NoReq, NoResponse, 0)
    /\ UNCHANGED cookieVars
    /\ UNCHANGED << pc, toastContainers, clock >>
    /\ UNCHANGED wishlistVars
    /\ UNCHANGED navVars

\* A hide transition of toast i ends: the element is no longer displayed
\* and the hidden event is dispatched on it (main.js:208-210).
ToastHidden(i) ==
    /\ i \in 1..Len(toastEls)
    /\ toastEls[i].hiding > 0
    /\ toastEls' =
         [toastEls EXCEPT
            ![i] = dispatchHidden([@ EXCEPT !.hiding = @ - 1, !.shown = FALSE],
                                  @.listeners)]
    /\ ev' = Event("hidden", 0, NoReq, NoResponse, 0)
    /\ UNCHANGED cookieVars
    /\ UNCHANGED << pc, toastContainers, clock >>
    /\ UNCHANGED wishlistVars
    /\ UNCHANGED navVars

\* The window fires a scroll event at the given offset (main.js:32).  The
\* listener exists once DOMContentLoaded has run.  window.pageYOffset is
\* the offset; documentElement.scrollTop is the offset too, or 0 in a
\* document in quirks mode.
Scroll(offset) ==
    /\ pc = "ready"
    /\ \E docScrollTop \in {0, offset} : scrollListener(offset, docScrollTop)
    /\ prevOffset' = offset
    /\ ev' = Event("scroll", 0, NoReq, NoResponse, offset)
    /\ UNCHANGED cookieVars
    /\ UNCHANGED << pc, clock, offsetHeight, navbarHeight >>
    /\ UNCHANGED wishlistVars
    /\ UNCHANGED toastVars

\* ---------------------------------------------------------- specifications
\* The page as the server rendered it, before DOMContentLoaded.
InitPage(codes, rendered, heights, containers, jars) ==
    /\ pc = "loading"
    /\ isbn \in codes
    /\ heartClass \in rendered
    \* the server renders a book's membership, so hearts of one book agree
    /\ \A h, g \in Hearts :
          (isbn[h] = isbn[g] /\ isbn[h] # NoIsbn)
             => heartClass[h] = heartClass[g]
    /\ handlers = [h \in Hearts |-> 0]
    /\ syncState = "none"
    /\ syncRequests = <<>>
    /\ inflight = {}
    /\ toastContainers \in containers
    /\ toastEls = <<>>
    /\ clock = 0
    /\ unhandled = 0
    /\ offsetHeight \in heights
    /\ navbarHeight = 0
    /\ lastScrollTop = 0
    /\ navClass = [hidden |-> FALSE, scrolled |-> FALSE]
    /\ clicks = 0
    /\ issued = [h \in Hearts |-> 0]
    /\ confirmed = [h \in Hearts |-> heartClass[h].active]
    /\ prevOffset = 0
    /\ cookieJar \in jars
    /\ documentCookie = cookieString(cookieJar)
    /\ cookieName = <<>>
    /\ cookieValue = [kind |-> "none", value |-> <<>>]
    /\ ev = Event("init", 0, NoReq, NoResponse, 0)

\* Every page of hearts; one navbar height.
Init ==
    InitPage(PageCodes, [Hearts -> RenderedHearts], {56}, {0}, {<<>>})

Next ==
    \/ DOMContentLoaded
    \/ \E h \in Hearts : Click(h)
    \/ \E resp \in SyncResponses : SyncResolve(resp)
    \/ \E r \in inflight : \E resp \in ToggleResponses : ToggleResolve(r, resp)

\* The wishlist controller.  Date.now() is read for toast ids only, and
\* nothing here depends on them: the clock stands still.
Spec == Init /\ [][Next]_vars

\* The navbar alone: one page of hearts, every navbar height.
InitScroll ==
    InitPage({[h \in Hearts |-> NoIsbn]},
             {[h \in Hearts |-> [active |-> FALSE, danger |-> FALSE,
                                 muted |-> TRUE]]},
             NavbarHeights, {0}, {<<>>})

NextScroll ==
    \/ DOMContentLoaded
    \/ \E offset \in ScrollOffsets : Scroll(offset)

SpecScroll == InitScroll /\ [][NextScroll]_vars

\* The program of Spec with every toggle request answered in the end: the
\* k-th request of a heart, while in flight, is settled at some time.
\* Nothing is asked of the status check or of the user.
EveryRequestSettles ==
    \A h \in Hearts, k \in 1..MaxClicks :
        WF_vars(\E r \in inflight, resp \in ToggleResponses :
                   r.heart = h /\ r.id = k /\ ToggleResolve(r, resp))
\* A page whose hearts are all of one book.
InitLive ==
    InitPage({[h \in Hearts |-> "A"]}, [Hearts -> RenderedHearts], {56}, {0}, {<<>>})
SpecLive ==
    InitLive /\ [][Next]_vars /\ EveryRequestSettles

\* The toasts: a page whose hearts carry no book code, so that no status
\* check is made, with or without a toast container of its own; the clock
\* runs, and each toast is hidden by its timer or dismissed by the user.
InitToast ==
    InitPage({[h \in Hearts |-> NoIsbn]},
             {[h \in Hearts |-> [active |-> FALSE, danger |-> FALSE,
                                 muted |-> TRUE]]},
             {56}, {0, 1}, {<<>>})

NextToast ==
    \/ DOMContentLoaded
    \/ \E h \in Hearts : Click(h)
    \/ \E r \in inflight : \E resp \in ToastResponses : ToggleResolve(r, resp)
    \/ Tick
    \/ \E i \in 1..Len(toastEls) : ToastTimeout(i)
    \/ \E i \in 1..Len(toastEls) : ToastDismiss(i)
    \/ \E i \in 1..Len(toastEls) : ToastHidden(i)

SpecToast == InitToast /\ [][NextToast]_vars

\* The cookie reader alone: every jar of cookies, every name asked for.
InitCookie ==
    InitPage({[h \in Hearts |-> NoIsbn]},
             {[h \in Hearts |-> [active |-> FALSE, danger |-> FALSE,
                                 muted |-> TRUE]]},
             {56}, {0}, CookieJars)

NextCookie ==
    \E name \in LookupNames : GetCookie(name)

SpecCookie == InitCookie /\ [][NextCookie]_vars


\* ------------------------------------------------------------------ claims
\* Steps, as the properties below recognise them.
\* The step settles the toggle request r with the response ev'.resp.
ToggleSettled(r) ==
    r \in inflight /\ r \notin inflight' /\ ev'.kind = "toggle" /\ ev'.req = r
\* The step settles the status check with the response ev'.resp.
SyncSettled ==
    syncState = "pending" /\ syncState' # "pending" /\ ev'.kind = "sync"
\* The step inserted exactly one toast, of the given message and category,
\* after the toasts that were there.
OneToast(message, type) ==
    /\ Len(toastEls') = Len(toastEls) + 1
    /\ \A i \in 1..Len(toastEls) :
          /\ toastEls'[i].message = toastEls[i].message
          /\ toastEls'[i].type = toastEls[i].type
    /\ toastEls'[Len(toastEls')].message = message
    /\ toastEls'[Len(toastEls')].type = type
NoToggleInFlight(h) ==
    \A q \in inflight : q.heart # h

\* C1: in every reachable state, every heart with no toggle request in
\* flight shows the membership a response last confirmed for its book code
\* (the server-rendered one before any response).  Stated for the hearts
\* whose book code no other heart carries; C8 is about the others.
C1_HeartMatchesConfirmed ==
    \A h \in Hearts :
        (NoToggleInFlight(h) /\ \A g \in Hearts : g # h => isbn[g] # isbn[h])
           => heartClass[h].active = confirmed[h]

\* C2: until the startup status check has resolved no heart has a click
\* handler and no toggle request has been issued; the check resolves once;
\* so whenever a toggle response is applied the status-check response was
\* applied before it.
C2_SyncBeforeHandlers ==
    [][ /\ (syncState' # "resolved" =>
               /\ \A h \in Hearts : handlers'[h] = 0 /\ issued'[h] = 0
               /\ inflight' = {})
        /\ (syncState = "resolved" => syncState' = "resolved")
        /\ (ev'.kind = "toggle" => syncState = "resolved")
        /\ (ev'.kind = "sync" => \A h \in Hearts : issued[h] = 0) ]_vars
\* A toggle response was applied on a page that made a status check, after
\* a click that came before the handlers.
C2_Witness ==
    /\ ev.kind = "toggle"
    /\ Len(syncRequests) = 1
    /\ clicks = 2
    /\ \E h \in Hearts :
          /\ ev.heart = h /\ issued[h] = 1
          /\ \A g \in Hearts \ {h} : issued[g] = 0

\* C3 as stated: every click made once the page has loaded issues a toggle
\* request for its heart.  (A click that finds no listener is not queued,
\* so a request not issued by the click's own step is never issued.)
C3_NoClickLost ==
    [][ \A h \in Hearts :
           (pc = "ready" /\ clicks' = clicks + 1 /\ ev'.heart = h)
              => issued'[h] = issued[h] + 1 ]_vars
\* C3 amended: a click issues exactly one toggle request when the status
\* check has resolved and none before; when the check resolves, in any
\* way, every heart has exactly one click handler, and keeps it.
C3_ClicksAfterSync ==
    [][ /\ \A h \in Hearts :
              (clicks' = clicks + 1 /\ ev'.heart = h)
                 => /\ issued'[h] = issued[h]
                                     + (IF syncState = "resolved" THEN 1 ELSE 0)
                    /\ \A g \in Hearts \ {h} : issued'[g] = issued[g]
                    /\ Cardinality(inflight') = Cardinality(inflight)
                                     + (IF syncState = "resolved" THEN 1 ELSE 0)
                    /\ \A r \in inflight' \ inflight :
                          r.heart = h /\ r.isbn = isbn[h]
        /\ (syncState = "pending" /\ syncState' # "pending"
               => syncState' = "resolved")
        /\ (syncState' = "resolved" => \A h \in Hearts : handlers'[h] = 1)
      ]_vars
\* One click on a heart was dropped while the status check was pending and
\* a later one issued a request.
C3_Witness ==
    /\ syncState = "resolved"
    /\ Len(syncRequests) = 1
    /\ clicks = 2
    /\ \E h \in Hearts :
          /\ ev.kind = "click" /\ ev.heart = h
          /\ issued[h] = 1
          /\ \E r \in inflight : r.heart = h
          /\ \A g \in Hearts \ {h} : issued[g] = 0

\* C4: a toggle response with success:true sets the clicked heart to the
\* response's in_wishlist and inserts exactly one toast with the server's
\* message, 'success' when in_wishlist and 'info' otherwise.
C4_ToggleSuccess ==
    [][ \A r \in inflight :
           (ToggleSettled(r) /\ ev'.resp.kind = "json" /\ ev'.resp.success)
              => /\ heartClass'[r.heart].active = ev'.resp.in_wishlist
                 /\ OneToast(ev'.resp.message,
                             IF ev'.resp.in_wishlist THEN "success" ELSE "info")
      ]_vars
\* A heart that was active at the click is active after a success
\* response that says in_wishlist, and the toast is a 'success' one.
C4_Witness ==
    /\ ev.kind = "toggle"
    /\ ev.resp.kind = "json" /\ ev.resp.success /\ ev.resp.in_wishlist
    /\ ev.req.pre
    /\ heartClass[ev.heart].active
    /\ toastEls[Len(toastEls)].type = "success"

\* C5 as stated: a success:false response shows a warning toast with the
\* server's message and leaves the heart in the negation of the state it
\* had right before the click, whatever resolved in between.
C5_NegationOfPreClick ==
    [][ \A r \in inflight :
           (ToggleSettled(r) /\ ev'.resp.kind = "json" /\ ~ev'.resp.success)
              => /\ heartClass'[r.heart].active = ~r.pre
                 /\ OneToast(ev'.resp.message, "warning") ]_vars
\* C5 amended: the heart ends in the negation of the state it has when the
\* response is handled, which is the negation of the pre-click state when
\* nothing changed the heart in between.
C5_NegationOfCurrent ==
    [][ \A r \in inflight :
           (ToggleSettled(r) /\ ev'.resp.kind = "json" /\ ~ev'.resp.success)
              => /\ heartClass'[r.heart].active = ~heartClass[r.heart].active
                 /\ (heartClass[r.heart].active = r.pre
                        => heartClass'[r.heart].active = ~r.pre)
                 /\ OneToast(ev'.resp.message, "warning") ]_vars
\* A success:false response was handled after another response had changed
\* the heart: it ends in its pre-click state.
C5_Witness ==
    /\ ev.kind = "toggle"
    /\ ev.resp.kind = "json" /\ ~ev.resp.success
    /\ heartClass[ev.heart].active = ev.req.pre
    /\ toastEls[Len(toastEls)].type = "warning"

\* C6: a toggle request that fails in transport, comes back not OK or with
\* an unparsable body inserts exactly one 'danger' toast with the fixed
\* message, negates the heart's current state and leaves no rejection
\* unhandled.
C6_ToggleFailure ==
    [][ \A r \in inflight :
           (ToggleSettled(r)
              /\ ev'.resp.kind \in {"network_error", "not_ok", "parse_error"})
              => /\ OneToast("Error updating wishlist", "danger")
                 /\ heartClass'[r.heart].active = ~heartClass[r.heart].active
                 /\ unhandled' = unhandled ]_vars
\* A response with a non-OK status was handled.
C6_Witness ==
    /\ ev.kind = "toggle"
    /\ ev.resp.kind = "not_ok"
    /\ toastEls[Len(toastEls)].type = "danger"
    /\ heartClass[ev.heart].active = ~ev.req.pre

\* C7: after a failed toggle (success:false or a failure of the request),
\* with no other toggle on the heart in flight, the heart shows the state
\* it showed before the click.
C7_FailureRestoresPreClick ==
    [][ \A r \in inflight :
           (/\ ToggleSettled(r)
            /\ ~(ev'.resp.kind = "json" /\ ev'.resp.success)
            /\ \A q \in inflight' : q.heart # r.heart)
              => heartClass'[r.heart].active = r.pre ]_vars

\* C8: a status-check response with success:true leaves every heart whose
\* code it mentions at the value returned for the code, and every other
\* heart as it was.
C8_SyncAppliesToEveryHeart ==
    [][ (SyncSettled /\ ev'.resp.kind = "json" /\ ev'.resp.success)
          => \A h \in Hearts :
                LET st == ev'.resp.wishlist_status
                    mine == { i \in 1..Len(st) : st[i].isbn = isbn[h] }
                IN  IF mine = {}
                    THEN heartClass'[h] = heartClass[h]
                    ELSE (\A i, j \in mine :
                             st[i].in_wishlist = st[j].in_wishlist)
                         => \A i \in mine :
                               heartClass'[h].active = st[i].in_wishlist
      ]_vars

\* C9: a status check that fails (transport, unparsable or malformed body,
\* success:false) shows no toast, changes no heart, resolves, and the click
\* handlers are attached.
C9_SyncFailureSwallowed ==
    [][ (SyncSettled /\ ~(ev'.resp.kind = "json" /\ ev'.resp.success))
          => /\ toastEls' = toastEls
             /\ toastContainers' = toastContainers
             /\ heartClass' = heartClass
             /\ syncState' = "resolved"
             /\ unhandled' = unhandled
             /\ \A h \in Hearts : handlers'[h] = 1 ]_vars
\* The status check failed in transport on a page with an active heart.
C9_Witness ==
    /\ ev.kind = "sync"
    /\ ev.resp.kind = "network_error"
    /\ syncState = "resolved"
    /\ \E h \in Hearts : heartClass[h].active /\ handlers[h] = 1

\* C10: right after a scroll event the navbar is hidden exactly when the
\* event's offset is above the previous event's offset (0 before the first)
\* and above the navbar's height, and the remembered offset is the event's.
C10_NavbarHideRule ==
    [][ ev'.kind = "scroll"
          => /\ navClass'.hidden <=>
                   (ev'.offset > prevOffset /\ ev'.offset > offsetHeight)
             /\ lastScrollTop' = ev'.offset
             /\ (ev'.offset <= offsetHeight => ~navClass'.hidden)
             /\ (ev'.offset <= prevOffset => ~navClass'.hidden) ]_vars
\* The navbar is hidden after a scroll down past a navbar of some height.
C10_Witness ==
    /\ ev.kind = "scroll"
    /\ navClass.hidden
    /\ offsetHeight > 0
    /\ ev.offset > offsetHeight

\* C11: right after a scroll event the navbar has the scrolled class exactly
\* when the event's offset is above 100, whatever the direction, the
\* navbar's height and the hidden class.
C11_ScrolledRule ==
    [][ ev'.kind = "scroll"
          => (navClass'.scrolled <=> ev'.offset > 100) ]_vars
\* The navbar is hidden and not scrolled: a scroll down past a low navbar,
\* at the threshold itself.
C11_Witness ==
    /\ ev.kind = "scroll"
    /\ ev.offset = 100
    /\ navClass.hidden
    /\ ~navClass.scrolled
\* The other three combinations of the two classes.
C11_ShownScrolled ==
    ev.kind = "scroll" /\ ~navClass.hidden /\ navClass.scrolled
C11_HiddenScrolled ==
    ev.kind = "scroll" /\ navClass.hidden /\ navClass.scrolled
C11_ShownUnscrolled ==
    ev.kind = "scroll" /\ ~navClass.hidden /\ ~navClass.scrolled

C14_InOrder ==
    \E h \in Hearts :
       /\ \A g \in Hearts \ {h} : isbn[g] # isbn[h] /\ issued[g] = 0
       /\ issued[h] = 2
       /\ inflight = {}
       /\ Len(toastEls) = 2
       /\ toastEls[1].type = "success"
       /\ ev.kind = "toggle" /\ ev.heart = h /\ ev.req.id = 2
       /\ heartClass[h].active # confirmed[h]

\* C15: the step that handles the response of a toggle request, whatever
\* the response, leaves the classes of every heart other than the
\* request's own unchanged.
C15_ToggleTouchesOwnHeartOnly ==
    [][ \A r \in inflight :
           ToggleSettled(r)
              => \A g \in Hearts \ {r.heart} : heartClass'[g] = heartClass[g] ]_vars
\* Requests of two hearts of the same book were in flight together; the
\* failure of one has just flipped its heart, and the other heart, its
\* request still in flight, shows what it showed.
C15_Witness ==
    \E h \in Hearts, g \in Hearts :
       /\ h # g
       /\ isbn[h] = isbn[g]
       /\ ev.kind = "toggle" /\ ev.heart = h
       /\ ev.resp.kind = "network_error"
       /\ heartClass[h].active # ev.req.pre
       /\ \E q \in inflight : q.heart = g /\ q.pre = heartClass[g].active

\* C17: a page load issues at most one status-check request.  Once the
\* document is ready, a page with a heart that has a book code has issued
\* exactly one request, whose list holds the code of each such heart once
\* per heart and nothing else; a page with no such heart has issued none,
\* its check is resolved and every heart has its click handler.
C17_OneStatusCheck ==
    /\ Len(syncRequests) <= 1
    /\ pc = "loading" => syncRequests = <<>>
    /\ pc = "ready" =>
         IF \E h \in Hearts : isbn[h] # NoIsbn
         THEN /\ Len(syncRequests) = 1
              /\ \A i \in 1..Len(syncRequests[1]) : syncRequests[1][i] \in Isbns
              /\ \A code \in Isbns :
                    Cardinality({ i \in 1..Len(syncRequests[1]) :
                                     syncRequests[1][i] = code })
                      = Cardinality({ h \in Hearts : isbn[h] = code })
         ELSE /\ syncRequests = <<>>
              /\ syncState = "resolved"
              /\ \A h \in Hearts : handlers[h] = 1
\* On a page whose hearts have no book code no status check was made, and
\* a click on a heart has issued a toggle request all the same.
C17_Witness ==
    /\ \A h \in Hearts : isbn[h] = NoIsbn
    /\ syncRequests = <<>>
    /\ \E h \in Hearts : issued[h] = 1
\* On a page where one heart has a code and another has none, the one
\* request lists the one code.
C17_Batched ==
    /\ \E h \in Hearts : isbn[h] = NoIsbn
    /\ \E h \in Hearts : isbn[h] # NoIsbn
    /\ Len(syncRequests) = 1
    /\ Len(syncRequests[1]) = Cardinality({ h \in Hearts : isbn[h] # NoIsbn })

\* C20: a heart that a step has updated (the heart of a handled toggle
\* response, or the heart a status entry of a successful status check
\* selects) is active exactly when its icon has text-danger, and its icon
\* has not both text-danger and text-muted.  For every class list a heart
\* may have and both membership values, the update gives such a heart that
\* shows the value, and applying the same value again changes nothing.
C20_HeartClassConsistent ==
    [][ /\ \A h \in Hearts :
              ( \/ (ev'.kind = "toggle" /\ ev'.heart = h)
                \/ (/\ SyncSettled
                    /\ ev'.resp.kind = "json" /\ ev'.resp.success
                    /\ \E i \in 1..Len(ev'.resp.wishlist_status) :
                          querySelectorHeart(ev'.resp.wishlist_status[i].isbn) = h) )
                 => /\ heartClass'[h].active <=> heartClass'[h].danger
                    /\ ~(heartClass'[h].danger /\ heartClass'[h].muted)
        /\ \A c \in [active : BOOLEAN, danger : BOOLEAN, muted : BOOLEAN],
              v \in BOOLEAN :
              LET u == updateWishlistHeart(c, v)
              IN  /\ u.active = v
                  /\ u.active <=> u.danger
                  /\ ~(u.danger /\ u.muted)
                  /\ updateWishlistHeart(u, v) = u ]_vars
\* A successful toggle response reported the membership the heart already
\* showed: the update was applied to a heart in that state and left it so.
C20_Witness ==
    \E h \in Hearts :
       /\ clicks = 1 /\ issued[h] = 1
       /\ ev.kind = "toggle" /\ ev.heart = h
       /\ ev.resp.kind = "json" /\ ev.resp.success
       /\ ev.resp.in_wishlist = ev.req.pre
       /\ ev.req.pre
       /\ heartClass[h] = [active |-> TRUE, danger |-> TRUE, muted |-> FALSE]

\* C16: a click step changes no heart and inserts no toast; a heart changes
\* and a toast is inserted only in a step that handles a response, and the
\* step that handles a toggle response updates the heart of its request
\* and inserts exactly one toast.  So a request that stays in flight has no
\* visible effect.  When every request is answered in the end, no request
\* issued by a click stays in flight for ever: each is handled at some time.
C16_NothingVisibleUntilHandled ==
    /\ [][ /\ ev'.kind = "click"
              => (heartClass' = heartClass /\ toastEls' = toastEls
                    /\ toastContainers' = toastContainers)
           /\ toastEls' # toastEls => ev'.kind = "toggle"
           /\ \A h \in Hearts :
                 heartClass'[h] # heartClass[h]
                    => \/ ev'.kind = "sync"
                       \/ (ev'.kind = "toggle" /\ ev'.heart = h)
           /\ \A r \in inflight :
                 ToggleSettled(r)
                    => /\ Len(toastEls') = Len(toastEls) + 1
                       /\ \A i \in 1..Len(toastEls) :
                             /\ toastEls'[i].message = toastEls[i].message
                             /\ toastEls'[i].type = toastEls[i].type
                       /\ \E v \in BOOLEAN :
                             heartClass'[r.heart]
                               = updateWishlistHeart(heartClass[r.heart], v) ]_vars
    /\ \A h \in Hearts, k \in 1..MaxClicks :
          []<>(\A q \in inflight : ~(q.heart = h /\ q.id = k))
\* The request of the first click on a heart is still in flight, the heart
\* as it was at the click, while the request of a later click on the same
\* heart has been handled and has inserted the only toast there is.
C16_Witness ==
    \E h \in Hearts :
       /\ \A g \in Hearts \ {h} : issued[g] = 0
       /\ issued[h] = 2
       /\ \E q \in inflight : q.heart = h /\ q.id = 1
       /\ ev.kind = "toggle" /\ ev.heart = h /\ ev.req.id = 2
       /\ Len(toastEls) = 1

\* C18: every toast element that showToast has inserted has exactly one
\* toast widget and exactly one hidden-listener, whatever the times of the
\* calls.
C18_EachToastItsOwnWidget ==
    \A i \in 1..Len(toastEls) :
        toastEls[i].widgets = 1 /\ toastEls[i].listeners = 1

\* C12: every toast that showToast has inserted and that is still in the
\* document is displayed and on its way out, its hide timer armed or a
\* hide under way, so that it leaves the document in the end; no toast is
\* taken out of the document more than once, and a toast that is out was
\* taken out once.
C12_ToastLeavesOnce ==
    \A i \in 1..Len(toastEls) :
        /\ toastEls[i].inDocument
              => /\ toastEls[i].shown
                 /\ toastEls[i].timers > 0 \/ toastEls[i].hiding > 0
                 /\ toastEls[i].removals = 0
        /\ ~toastEls[i].inDocument => toastEls[i].removals = 1

\* C19: the document never has more than one toast container; the number
\* of containers changes only in a step that calls showToast when the
\* page has no container and no toast was inserted before, and it becomes
\* one; once a toast was inserted there is exactly one container, every
\* toast was inserted into it, and only the first call may have created it.
C19_OneLazyContainer ==
    [][ /\ toastContainers' <= 1
        /\ toastContainers' # toastContainers
              => /\ ev'.kind = "toggle"
                 /\ toastContainers = 0 /\ toastEls = <<>>
                 /\ toastContainers' = 1
        /\ toastEls' # <<>>
              => /\ toastContainers' = 1
                 /\ \A i \in 1..Len(toastEls') :
                       /\ toastEls'[i].container = 1
                       /\ toastEls'[i].createdContainer
                             => (i = 1 /\ toastContainers = IF toastEls = <<>>
                                                           THEN 0 ELSE 1) ]_vars
\* The first call created the container, a later call found it, and the
\* first toast has left the document since: there is one container.
C19_Witness ==
    /\ Len(toastEls) >= 2
    /\ toastEls[1].createdContainer /\ ~toastEls[1].inDocument
    /\ ~toastEls[2].createdContainer /\ toastEls[2].inDocument
    /\ toastEls[2].id # toastEls[1].id
    /\ toastContainers = 1
\* The page had a container of its own and the first call used it.
C19_PageContainer ==
    /\ Len(toastEls) = 1
    /\ ~toastEls[1].createdContainer
    /\ toastContainers = 1

\* The cookies of the jar that are named exactly name, by position.
NamedExactly(name) ==
    { i \in 1..Len(cookieJar) : cookieJar[i].name = name }
FirstNamed(name) ==
    CHOOSE i \in NamedExactly(name) : \A j \in NamedExactly(name) : i <= j

\* C13: for every cookie string and every name asked for, getCookie
\* returns: null when no cookie is named exactly so, and else the
\* URI-decoded value of the first cookie so named, wherever it stands and
\* whatever spaces follow the separators.
C13_GetCookie ==
    cookieValue.kind # "none"
       => IF NamedExactly(cookieName) = {}
          THEN cookieValue.kind = "null"
          ELSE /\ cookieValue.kind = "string"
               /\ cookieValue
                    = decodeURIComponent(cookieJar[FirstNamed(cookieName)].value)
\* The same with the throw let through: the call ends as the decoding of
\* the first value so named ends, with its string or with its URIError.
C13_GetCookieOrThrow ==
    cookieValue.kind # "none"
       => IF NamedExactly(cookieName) = {}
          THEN cookieValue.kind = "null"
          ELSE cookieValue
                 = decodeURIComponent(cookieJar[FirstNamed(cookieName)].value)
\* The name was asked for where a longer name ending in it comes first and
\* the cookie itself second, after a space, with an escaped value.
C13_SecondPlace ==
    /\ cookieName = <<"a">>
    /\ Len(cookieJar) = 2
    /\ cookieJar[1].name = <<"b", "a">>
    /\ cookieJar[2].name = <<"a">> /\ cookieJar[2].space = 1
    /\ cookieJar[2].value = <<"%", "4", "1">>
    /\ cookieValue = [kind |-> "string", value |-> <<"A">>]

====
